---- MODULE Spec2Model ----
(***************************************************************************)
(* Model of the survival credit modelling pipeline                         *)
(* (src/v1-model-full/survival_credit_model.py): DataValidator,            *)
(* HazardRateEstimator, CurveTransferEngine, ForecastGenerator,            *)
(* OutputFormatter and the SurvivalCreditModel orchestrator.               *)
(*                                                                         *)
(* Floating point numbers are modelled as exact rationals <<n, d>> in      *)
(* lowest terms (d > 0), extended with the IEEE special values             *)
(* +inf = <<1, 0>>, -inf = <<-1, 0>> and NaN = <<0, 0>>.  Rounding is not  *)
(* modelled; division by zero, infinities and NaN are.                     *)
(***************************************************************************)
EXTENDS Integers, Sequences, FiniteSets, TLC

(***************************************************************************)
(* Float arithmetic                                                        *)
(***************************************************************************)
RECURSIVE Gcd(_, _)
Gcd(a, b) ==
    IF b = 0 THEN a ELSE Gcd(b, a % b)

Abs(x) ==
    IF x < 0 THEN -x ELSE x

Sign(x) ==
    IF x > 0 THEN 1 ELSE IF x < 0 THEN -1 ELSE 0

NaN ==
    <<0, 0>>

PosInf ==
    <<1, 0>>

NegInf ==
    <<-1, 0>>

\* The float n/d for integers n and d > 0, in lowest terms.
Frac(n, d) ==
    LET g == Gcd(Abs(n), d)
    IN  <<n \div g, d \div g>>

Num(n) ==
    <<n, 1>>

Zero ==
    <<0, 1>>

IsNaN(x) ==
    x[2] = 0 /\ x[1] = 0

IsInf(x) ==
    x[2] = 0 /\ x[1] # 0

IsFinite(x) ==
    x[2] > 0

FNeg(x) ==
    <<-x[1], x[2]>>

FAdd(x, y) ==
    IF IsNaN(x) \/ IsNaN(y) THEN NaN
    ELSE IF IsInf(x) /\ IsInf(y) THEN (IF x[1] = y[1] THEN x ELSE NaN)
    ELSE IF IsInf(x) THEN x
    ELSE IF IsInf(y) THEN y
    ELSE Frac(x[1] * y[2] + y[1] * x[2], x[2] * y[2])

FSub(x, y) ==
    FAdd(x, FNeg(y))

FMul(x, y) ==
    IF IsNaN(x) \/ IsNaN(y) THEN NaN
    ELSE IF IsInf(x) \/ IsInf(y)
         THEN <<Sign(x[1]) * Sign(y[1]), 0>>
    ELSE Frac(x[1] * y[1], x[2] * y[2])

\* numpy / pandas float division: x / 0 is +-inf or NaN, never an exception.
FDiv(x, y) ==
    IF IsNaN(x) \/ IsNaN(y) THEN NaN
    ELSE IF IsInf(x) THEN (IF IsInf(y) THEN NaN
                           ELSE <<x[1] * (IF y[1] < 0 THEN -1 ELSE 1), 0>>)
    ELSE IF IsInf(y) THEN Zero
    ELSE IF y[1] = 0 THEN <<Sign(x[1]), 0>>
    ELSE Frac(x[1] * y[2] * Sign(y[1]), x[2] * Abs(y[1]))

\* x < y on floats: every comparison with NaN is false.
FLt(x, y) ==
    IF IsNaN(x) \/ IsNaN(y) THEN FALSE
    ELSE IF IsInf(x) \/ IsInf(y)
         THEN (IF IsInf(x) /\ IsInf(y) THEN x[1] < y[1]
               ELSE IF IsInf(x) THEN x[1] < 0
               ELSE y[1] > 0)
    ELSE x[1] * y[2] < y[1] * x[2]

FGt(x, y) ==
    FLt(y, x)

FLe(x, y) ==
    IF IsNaN(x) \/ IsNaN(y) THEN FALSE ELSE ~FLt(y, x)

FGe(x, y) ==
    FLe(y, x)

FAbs(x) ==
    <<Abs(x[1]), x[2]>>

\* Python's max(0, x): x when x > 0, else the first argument 0 (also for NaN).
PyMax0(x) ==
    IF FGt(x, Zero) THEN x ELSE Zero

(***************************************************************************)
(* Tables.  A table (DataFrame) is its set of column names and its rows in *)
(* order; a row of a flow table is a record with the five required fields. *)
(***************************************************************************)
REQUIRED_COLUMNS ==
    {"segment_id", "month_on_book", "payments", "chargeoffs", "outstanding_balance"}

\* The dollar amount of c cents.
Cents(c) ==
    Frac(c, 100)

\* The $0.01 tolerance of the balance flow check.
Tolerance ==
    Frac(1, 100)

\* The $0.01 floor of the forecast loop.
BALANCE_FLOOR ==
    Frac(1, 100)

One ==
    Num(1)

RECURSIVE SeqRange(_)
SeqRange(s) ==
    IF s = <<>> THEN {} ELSE {Head(s)} \cup SeqRange(Tail(s))

Front(s) ==
    SubSeq(s, 1, Len(s) - 1)

Last(s) ==
    s[Len(s)]

SetMin(S) ==
    CHOOSE x \in S : \A y \in S : x <= y

SetMax(S) ==
    CHOOSE x \in S : \A y \in S : x >= y

\* r put into the month-sorted sequence s behind every row of the same or a
\* smaller month (rows of equal month keep their input order).
RECURSIVE InsertByMonth(_, _)
InsertByMonth(s, r) ==
    IF s = <<>> THEN <<r>>
    ELSE IF Last(s).month_on_book <= r.month_on_book THEN Append(s, r)
    ELSE Append(InsertByMonth(Front(s), r), Last(s))

\* df.sort_values('month_on_book')
RECURSIVE SortByMonth(_)
SortByMonth(rows) ==
    IF rows = <<>> THEN <<>>
    ELSE InsertByMonth(SortByMonth(Front(rows)), Last(rows))

\* df['segment_id'].unique(): the segment ids in order of first appearance.
RECURSIVE UniqueSegments(_)
UniqueSegments(rows) ==
    IF rows = <<>> THEN <<>>
    ELSE LET u == UniqueSegments(Front(rows))
             g == Last(rows).segment_id
         IN  IF g \in SeqRange(u) THEN u ELSE Append(u, g)

\* df[df['segment_id'] == segment_id]
SegmentRows(rows, segment_id) ==
    SelectSeq(rows, LAMBDA r : r.segment_id = segment_id)

(***************************************************************************)
(* DataValidator.  A message is <<text, segment_id, months>>.              *)
(***************************************************************************)
Msg(text) ==
    <<text, "", {}>>

\* The errors and warnings _check_data_quality appends.  It appends to
\* results['errors'] and leaves results['valid'] as it is.
_check_data_quality(rows, results) ==
    LET e1 == IF \E i \in 1..Len(rows) : rows[i].month_on_book < 0
              THEN <<Msg("month_on_book cannot be negative")>> ELSE <<>>
        w1 == IF \E i \in 1..Len(rows) : FLe(rows[i].outstanding_balance, Zero)
              THEN <<Msg("Zero or negative outstanding_balance detected")>> ELSE <<>>
        e2 == IF \E i \in 1..Len(rows) : FLt(rows[i].payments, Zero)
              THEN <<Msg("Negative payments detected")>> ELSE <<>>
        e3 == IF \E i \in 1..Len(rows) : FLt(rows[i].chargeoffs, Zero)
              THEN <<Msg("Negative chargeoffs detected")>> ELSE <<>>
        w2 == IF \E i \in 1..Len(rows) :
                    FGt(FDiv(rows[i].payments, rows[i].outstanding_balance), One)
              THEN <<Msg("Payment rates > 100% detected")>> ELSE <<>>
        w3 == IF \E i \in 1..Len(rows) :
                    FGt(FDiv(rows[i].chargeoffs, rows[i].outstanding_balance), One)
              THEN <<Msg("Chargeoff rates > 100% detected")>> ELSE <<>>
    IN  [results EXCEPT !.errors = @ \o e1 \o e2 \o e3,
                        !.warnings = @ \o w1 \o w2 \o w3]

implied_next_balance(r) ==
    FSub(FSub(r.outstanding_balance, r.payments), r.chargeoffs)

\* The indices i of the month-sorted segment rows whose implied next balance
\* differs from the next row's balance by more than the tolerance.
FlowBreaks(segment_df) ==
    {i \in 1..(Len(segment_df) - 1) :
        FGt(FAbs(FSub(implied_next_balance(segment_df[i]),
                      segment_df[i + 1].outstanding_balance)), Tolerance)}

\* BusinessWarnings without the break: a warning for every inconsistent pair.
RECURSIVE BusinessWarnings_every_break(_, _)
BusinessWarnings_every_break(rows, segments) ==
    IF segments = <<>> THEN <<>>
    ELSE LET segment_df == SortByMonth(SegmentRows(rows, Head(segments)))
             breaks == FlowBreaks(segment_df)
             pairs == SelectSeq([i \in 1..(Len(segment_df) - 1) |-> i],
                                LAMBDA i : i \in breaks)
             w == [k \in 1..Len(pairs) |->
                      <<"Balance flow inconsistency", Head(segments),
                        {segment_df[pairs[k]].month_on_book}>>]
         IN  w \o BusinessWarnings_every_break(rows, Tail(segments))

RECURSIVE BusinessWarnings(_, _)
BusinessWarnings(rows, segments) ==
    IF segments = <<>> THEN <<>>
    ELSE LET segment_df == SortByMonth(SegmentRows(rows, Head(segments)))
             breaks == FlowBreaks(segment_df)
             w == IF breaks = {} THEN <<>>
                  ELSE << <<"Balance flow inconsistency", Head(segments),
                            {segment_df[SetMin(breaks)].month_on_book}>> >>
         IN  w \o BusinessWarnings(rows, Tail(segments))

_check_business_logic(rows, results) ==
    [results EXCEPT !.warnings = @ \o BusinessWarnings(rows, UniqueSegments(rows))]

RECURSIVE CompletenessWarnings(_, _)
CompletenessWarnings(rows, segments) ==
    IF segments = <<>> THEN <<>>
    ELSE LET segment_df == SegmentRows(rows, Head(segments))
             months == {segment_df[i].month_on_book : i \in 1..Len(segment_df)}
             missing_months == (SetMin(months)..SetMax(months)) \ months
             w == IF missing_months = {} THEN <<>>
                  ELSE << <<"Missing months", Head(segments), missing_months>> >>
         IN  w \o CompletenessWarnings(rows, Tail(segments))

_check_completeness(rows, results) ==
    [results EXCEPT !.warnings = @ \o CompletenessWarnings(rows, UniqueSegments(rows))]

\* validate_data that runs the completeness check before it looks at the
\* columns (when the two columns that check reads are there).
validate_data_checks_first(df) ==
    LET results == [valid |-> TRUE, errors |-> <<>>, warnings |-> <<>>]
        checked == IF {"segment_id", "month_on_book"} \subseteq df.columns
                   THEN _check_completeness(df.rows, results) ELSE results
    IN  IF REQUIRED_COLUMNS \ df.columns # {}
        THEN [checked EXCEPT !.valid = FALSE,
                             !.errors = <<Msg("Missing required columns")>>]
        ELSE _check_completeness(df.rows,
                 _check_business_logic(df.rows,
                     _check_data_quality(df.rows, results)))

validate_data(df) ==
    LET results == [valid |-> TRUE, errors |-> <<>>, warnings |-> <<>>]
    IN  IF REQUIRED_COLUMNS \ df.columns # {}
        THEN [results EXCEPT !.valid = FALSE,
                             !.errors = <<Msg("Missing required columns")>>]
        ELSE _check_completeness(df.rows,
                 _check_business_logic(df.rows,
                     _check_data_quality(df.rows, results)))

(***************************************************************************)
(* HazardRateEstimator.  hazard_curves is a dict: EmptyDict before the     *)
(* first fit, afterwards a record with the keys payment_hazard and         *)
(* chargeoff_hazard (functions from age to rate) and training_data.        *)
(***************************************************************************)
EmptyDict ==
    [k \in {} |-> 0]

RECURSIVE FSum(_)
FSum(s) ==
    IF s = <<>> THEN Zero ELSE FAdd(FSum(Front(s)), Last(s))

\* The ascending sequence of the elements of a finite set of integers.
RECURSIVE Sorted(_)
Sorted(S) ==
    IF S = {} THEN <<>> ELSE <<SetMin(S)>> \o Sorted(S \ {SetMin(S)})

\* Series.fillna(0)
fillna0(x) ==
    IF IsNaN(x) THEN Zero ELSE x

\* AggRow whose rates are the mean of the rates of the records of the age.
AggRow_mean_of_rates(rows, month) ==
    LET g == SelectSeq(rows, LAMBDA r : r.month_on_book = month)
        bal == FSum([i \in 1..Len(g) |-> g[i].outstanding_balance])
        pay == FSum([i \in 1..Len(g) |-> g[i].payments])
        co == FSum([i \in 1..Len(g) |-> g[i].chargeoffs])
        pay_rates == [i \in 1..Len(g) |-> FDiv(g[i].payments, g[i].outstanding_balance)]
        co_rates == [i \in 1..Len(g) |-> FDiv(g[i].chargeoffs, g[i].outstanding_balance)]
    IN  [month_on_book |-> month,
         outstanding_balance |-> bal,
         payments |-> pay,
         chargeoffs |-> co,
         payment_hazard_rate |-> fillna0(FDiv(FSum(pay_rates), Num(Len(g)))),
         chargeoff_hazard_rate |-> fillna0(FDiv(FSum(co_rates), Num(Len(g))))]

\* AggRow with the operands of the two divisions exchanged.
AggRow_inverted(rows, month) ==
    LET g == SelectSeq(rows, LAMBDA r : r.month_on_book = month)
        bal == FSum([i \in 1..Len(g) |-> g[i].outstanding_balance])
        pay == FSum([i \in 1..Len(g) |-> g[i].payments])
        co == FSum([i \in 1..Len(g) |-> g[i].chargeoffs])
    IN  [month_on_book |-> month,
         outstanding_balance |-> bal,
         payments |-> pay,
         chargeoffs |-> co,
         payment_hazard_rate |-> fillna0(FDiv(bal, pay)),
         chargeoff_hazard_rate |-> fillna0(FDiv(bal, co))]

\* One row of df.groupby('month_on_book').agg(sum) with the two raw rates.
AggRow(rows, month) ==
    LET g == SelectSeq(rows, LAMBDA r : r.month_on_book = month)
        bal == FSum([i \in 1..Len(g) |-> g[i].outstanding_balance])
        pay == FSum([i \in 1..Len(g) |-> g[i].payments])
        co == FSum([i \in 1..Len(g) |-> g[i].chargeoffs])
    IN  [month_on_book |-> month,
         outstanding_balance |-> bal,
         payments |-> pay,
         chargeoffs |-> co,
         payment_hazard_rate |-> fillna0(FDiv(pay, bal)),
         chargeoff_hazard_rate |-> fillna0(FDiv(co, bal))]

\* The aggregate table, one row per age in ascending age order.
Aggregate(rows) ==
    LET ages == Sorted({rows[i].month_on_book : i \in 1..Len(rows)})
    IN  [j \in 1..Len(ages) |-> AggRow(rows, ages[j])]

\* Series.rolling(window, center=True, min_periods=1).mean() at position i
\* (1-based) of the series x: the window is the positions i - window + 1 +
\* offset .. i + offset, offset = (window - 1) \div 2, cut to the series.
\* The window functions take an infinite value for a missing one, and the
\* mean is over the observations left (NaN when there is none).
RollingMean(x, window, i) ==
    LET offset == (window - 1) \div 2
        lo == IF i + offset - window + 1 < 1 THEN 1 ELSE i + offset - window + 1
        hi == IF i + offset > Len(x) THEN Len(x) ELSE i + offset
        obs == SelectSeq(SubSeq(x, lo, hi), LAMBDA v : IsFinite(v))
    IN  IF obs = <<>> THEN NaN ELSE FDiv(FSum(obs), Num(Len(obs)))

Smooth(x, smoothing_window) ==
    IF smoothing_window > 1
    THEN [i \in 1..Len(x) |-> RollingMean(x, smoothing_window, i)]
    ELSE x

\* dict(zip(agg_df['month_on_book'], rates))
CurveDict(agg_df, rates) ==
    [m \in {agg_df[j].month_on_book : j \in 1..Len(agg_df)} |->
        rates[CHOOSE j \in 1..Len(agg_df) : agg_df[j].month_on_book = m]]

\* fit that updates the stored mappings in place: the ages of the old curve
\* that the new table lacks stay.
fit_merged(old_curves, smoothing_window, rows) ==
    LET agg_df == Aggregate(rows)
        pay == [j \in 1..Len(agg_df) |-> agg_df[j].payment_hazard_rate]
        co == [j \in 1..Len(agg_df) |-> agg_df[j].chargeoff_hazard_rate]
        old_pay == IF DOMAIN old_curves = {} THEN EmptyDict ELSE old_curves.payment_hazard
        old_co == IF DOMAIN old_curves = {} THEN EmptyDict ELSE old_curves.chargeoff_hazard
    IN  [payment_hazard |-> CurveDict(agg_df, Smooth(pay, smoothing_window)) @@ old_pay,
         chargeoff_hazard |-> CurveDict(agg_df, Smooth(co, smoothing_window)) @@ old_co,
         training_data |-> agg_df]

\* HazardRateEstimator.fit: the new value of self.hazard_curves.  The dict is
\* built from df alone and assigned; nothing of the old dict is kept.
fit(old_curves, smoothing_window, rows) ==
    LET agg_df == Aggregate(rows)
        pay == [j \in 1..Len(agg_df) |-> agg_df[j].payment_hazard_rate]
        co == [j \in 1..Len(agg_df) |-> agg_df[j].chargeoff_hazard_rate]
    IN  [payment_hazard |-> CurveDict(agg_df, Smooth(pay, smoothing_window)),
         chargeoff_hazard |-> CurveDict(agg_df, Smooth(co, smoothing_window)),
         training_data |-> agg_df]

HAZARD_TYPES ==
    {"payment", "chargeoff"}

curve_key(hazard_type) ==
    IF hazard_type = "payment" THEN "payment_hazard"
    ELSE IF hazard_type = "chargeoff" THEN "chargeoff_hazard"
    ELSE "other_hazard"

\* LookupRate that gives 0.0 for an age outside the known ages.
LookupRate_zero_outside(rates, month) ==
    LET available_months == DOMAIN rates
    IN  IF month \in available_months THEN rates[month]
        ELSE IF available_months = {} THEN Zero
        ELSE IF month < SetMin(available_months) THEN Zero
        ELSE IF month > SetMax(available_months) THEN Zero
        ELSE LET lower_month == SetMax({m \in available_months : m <= month})
                 upper_month == SetMin({m \in available_months : m >= month})
                 weight == Frac(month - lower_month, upper_month - lower_month)
             IN  FAdd(FMul(rates[lower_month], FSub(One, weight)),
                      FMul(rates[upper_month], weight))

\* LookupRate that holds the rate of the known age below up to the next known
\* age.
LookupRate_step(rates, month) ==
    LET available_months == DOMAIN rates
    IN  IF month \in available_months THEN rates[month]
        ELSE IF available_months = {} THEN Zero
        ELSE IF month < SetMin(available_months) THEN rates[SetMin(available_months)]
        ELSE rates[SetMax({m \in available_months : m <= month})]

\* The interpolation / extrapolation of get_hazard_rate over one mapping.
LookupRate(rates, month) ==
    LET available_months == DOMAIN rates
    IN  IF month \in available_months THEN rates[month]
        ELSE IF available_months = {} THEN Zero
        ELSE IF month < SetMin(available_months) THEN rates[SetMin(available_months)]
        ELSE IF month > SetMax(available_months) THEN rates[SetMax(available_months)]
        ELSE LET lower_month == SetMax({m \in available_months : m <= month})
                 upper_month == SetMin({m \in available_months : m >= month})
                 weight == Frac(month - lower_month, upper_month - lower_month)
             IN  IF lower_month = upper_month THEN rates[lower_month]
                 ELSE FAdd(FMul(rates[lower_month], FSub(One, weight)),
                           FMul(rates[upper_month], weight))

\* HazardRateEstimator.get_hazard_rate: [raised, value].
get_hazard_rate(curves, month, hazard_type) ==
    IF DOMAIN curves = {}
    THEN [raised |-> "NotFitted", value |-> NaN]
    ELSE IF curve_key(hazard_type) \notin DOMAIN curves
    THEN [raised |-> "InvalidKind", value |-> NaN]
    ELSE [raised |-> "none", value |-> LookupRate(curves[curve_key(hazard_type)], month)]

(***************************************************************************)
(* CurveTransferEngine.  The rows of df.iterrows() hold Python scalars     *)
(* (segment_id is a string, so a row is an object Series), and a Python    *)
(* division by a zero balance raises ZeroDivisionError.                    *)
(***************************************************************************)
PAYMENT_VARIANCE_THRESHOLD ==
    Frac(5, 100)

CHARGEOFF_VARIANCE_THRESHOLD ==
    Frac(2, 100)

IsZero(x) ==
    x[1] = 0 /\ x[2] > 0

Comparison(curves, row) ==
    LET month == row.month_on_book
        expected_payment_rate == get_hazard_rate(curves, month, "payment").value
        expected_chargeoff_rate == get_hazard_rate(curves, month, "chargeoff").value
        actual_payment_rate == FDiv(row.payments, row.outstanding_balance)
        actual_chargeoff_rate == FDiv(row.chargeoffs, row.outstanding_balance)
    IN  [month_on_book |-> month,
         expected_payment_rate |-> expected_payment_rate,
         actual_payment_rate |-> actual_payment_rate,
         payment_variance |-> FSub(actual_payment_rate, expected_payment_rate),
         expected_chargeoff_rate |-> expected_chargeoff_rate,
         actual_chargeoff_rate |-> actual_chargeoff_rate,
         chargeoff_variance |-> FSub(actual_chargeoff_rate, expected_chargeoff_rate)]

VarianceWarnings(c) ==
    (IF FGt(FAbs(c.payment_variance), PAYMENT_VARIANCE_THRESHOLD)
     THEN << <<"Large payment variance", "", {c.month_on_book}>> >> ELSE <<>>)
    \o
    (IF FGt(FAbs(c.chargeoff_variance), CHARGEOFF_VARIANCE_THRESHOLD)
     THEN << <<"Large chargeoff variance", "", {c.month_on_book}>> >> ELSE <<>>)

RECURSIVE AllVarianceWarnings(_)
AllVarianceWarnings(cs) ==
    IF cs = <<>> THEN <<>>
    ELSE AllVarianceWarnings(Front(cs)) \o VarianceWarnings(Last(cs))

FMean(x) ==
    FDiv(FSum(x), Num(Len(x)))

\* summary_stats; the two rmse entries are kept as the mean squared variance
\* whose square root the code takes.
SummaryStats(cs) ==
    IF cs = <<>> THEN EmptyDict
    ELSE [mean_payment_variance |-> FMean([i \in 1..Len(cs) |-> cs[i].payment_variance]),
          mean_chargeoff_variance |-> FMean([i \in 1..Len(cs) |-> cs[i].chargeoff_variance]),
          mse_payment |-> FMean([i \in 1..Len(cs) |->
                                    FMul(cs[i].payment_variance, cs[i].payment_variance)]),
          mse_chargeoff |-> FMean([i \in 1..Len(cs) |->
                                    FMul(cs[i].chargeoff_variance, cs[i].chargeoff_variance)])]

\* CurveTransferEngine.validate_known_actuals: the first row raises NotFitted
\* on an unfitted estimator, and the first row of zero balance raises
\* ZeroDivisionError.
validate_known_actuals(curves, rows) ==
    LET cs == [i \in 1..Len(rows) |-> Comparison(curves, rows[i])]
        raised == IF rows = <<>> THEN "none"
                  ELSE IF DOMAIN curves = {} THEN "NotFitted"
                  ELSE IF \E i \in 1..Len(rows) : IsZero(rows[i].outstanding_balance)
                       THEN "ZeroDivisionError"
                  ELSE "none"
    IN  IF raised # "none"
        THEN [raised |-> raised, detailed_comparison |-> <<>>,
              summary_stats |-> EmptyDict, warnings |-> <<>>]
        ELSE [raised |-> "none", detailed_comparison |-> cs,
              summary_stats |-> SummaryStats(cs),
              warnings |-> AllVarianceWarnings(cs)]

(***************************************************************************)
(* ForecastGenerator                                                       *)
(***************************************************************************)
WithFlag(r, flag) ==
    [segment_id |-> r.segment_id,
     month_on_book |-> r.month_on_book,
     outstanding_balance |-> r.outstanding_balance,
     payments |-> r.payments,
     chargeoffs |-> r.chargeoffs,
     forecast_flag |-> flag]

\* NextBalance with the payments added to the balance.
NextBalance_adds(current_balance, payment_amount, chargeoff_amount) ==
    PyMax0(FSub(FAdd(current_balance, payment_amount), chargeoff_amount))

\* The step of the running balance after a forecast row: the subtraction and
\* the max(0, .) clamp.
NextBalance(current_balance, payment_amount, chargeoff_amount) ==
    PyMax0(FSub(FSub(current_balance, payment_amount), chargeoff_amount))

\* AtFloor that stops at a balance of exactly zero only.
AtFloor_zero(current_balance) ==
    IsZero(current_balance)

\* AtFloor with < in place of <=.
AtFloor_strict(current_balance) ==
    FLt(current_balance, BALANCE_FLOOR)

\* The floor test that ends the loop.
AtFloor(current_balance) ==
    FLe(current_balance, BALANCE_FLOOR)

\* ForecastLoop that scales the two amounts down to the balance when their
\* sum is above it.
RECURSIVE ForecastLoop_prorated(_, _, _, _, _)
ForecastLoop_prorated(curves, segment_id, month, max_month, current_balance) ==
    IF month > max_month \/ AtFloor(current_balance)
    THEN [raised |-> "none", rows |-> <<>>]
    ELSE IF DOMAIN curves = {}
    THEN [raised |-> "NotFitted", rows |-> <<>>]
    ELSE LET payment_rate == get_hazard_rate(curves, month, "payment").value
             chargeoff_rate == get_hazard_rate(curves, month, "chargeoff").value
             total == FAdd(FMul(current_balance, payment_rate),
                           FMul(current_balance, chargeoff_rate))
             scale == IF FGt(total, current_balance)
                      THEN FDiv(current_balance, total) ELSE One
             payment_amount == FMul(FMul(current_balance, payment_rate), scale)
             chargeoff_amount == FMul(FMul(current_balance, chargeoff_rate), scale)
             forecast_row == [segment_id |-> segment_id,
                              month_on_book |-> month,
                              outstanding_balance |-> current_balance,
                              payments |-> payment_amount,
                              chargeoffs |-> chargeoff_amount,
                              forecast_flag |-> "Forecast"]
             rest == ForecastLoop_prorated(curves, segment_id, month + 1, max_month,
                         NextBalance(current_balance, payment_amount, chargeoff_amount))
         IN  [raised |-> rest.raised, rows |-> <<forecast_row>> \o rest.rows]

\* ForecastLoop over range(last_known_month + 1, max_month): max_month itself
\* is left out.
RECURSIVE ForecastLoop_exclusive(_, _, _, _, _)
ForecastLoop_exclusive(curves, segment_id, month, max_month, current_balance) ==
    IF month >= max_month \/ AtFloor(current_balance)
    THEN [raised |-> "none", rows |-> <<>>]
    ELSE IF DOMAIN curves = {}
    THEN [raised |-> "NotFitted", rows |-> <<>>]
    ELSE LET payment_rate == get_hazard_rate(curves, month, "payment").value
             chargeoff_rate == get_hazard_rate(curves, month, "chargeoff").value
             payment_amount == FMul(current_balance, payment_rate)
             chargeoff_amount == FMul(current_balance, chargeoff_rate)
             forecast_row == [segment_id |-> segment_id,
                              month_on_book |-> month,
                              outstanding_balance |-> current_balance,
                              payments |-> payment_amount,
                              chargeoffs |-> chargeoff_amount,
                              forecast_flag |-> "Forecast"]
             rest == ForecastLoop_exclusive(curves, segment_id, month + 1, max_month,
                         NextBalance(current_balance, payment_amount, chargeoff_amount))
         IN  [raised |-> rest.raised, rows |-> <<forecast_row>> \o rest.rows]

\* The loop of generate_forecast from `month` on: [raised, rows].
RECURSIVE ForecastLoop(_, _, _, _, _)
ForecastLoop(curves, segment_id, month, max_month, current_balance) ==
    IF month > max_month \/ AtFloor(current_balance)
    THEN [raised |-> "none", rows |-> <<>>]
    ELSE IF DOMAIN curves = {}
    THEN [raised |-> "NotFitted", rows |-> <<>>]
    ELSE LET payment_rate == get_hazard_rate(curves, month, "payment").value
             chargeoff_rate == get_hazard_rate(curves, month, "chargeoff").value
             payment_amount == FMul(current_balance, payment_rate)
             chargeoff_amount == FMul(current_balance, chargeoff_rate)
             forecast_row == [segment_id |-> segment_id,
                              month_on_book |-> month,
                              outstanding_balance |-> current_balance,
                              payments |-> payment_amount,
                              chargeoffs |-> chargeoff_amount,
                              forecast_flag |-> "Forecast"]
             rest == ForecastLoop(curves, segment_id, month + 1, max_month,
                         NextBalance(current_balance, payment_amount, chargeoff_amount))
         IN  [raised |-> rest.raised, rows |-> <<forecast_row>> \o rest.rows]

\* The first row of the largest month_on_book.
LastKnownRow(rows) ==
    LET last_known_month == SetMax({rows[i].month_on_book : i \in 1..Len(rows)})
    IN  rows[SetMin({i \in 1..Len(rows) : rows[i].month_on_book = last_known_month})]

\* generate_forecast with the loop started from the balance of the last known
\* row, its payments and chargeoffs not taken off.
generate_forecast_opening_balance(curves, rows, max_month) ==
    IF rows = <<>>
    THEN [raised |-> "IndexError", rows |-> <<>>]
    ELSE LET forecast_df == [i \in 1..Len(rows) |-> WithFlag(rows[i], "Actual")]
             last_row == LastKnownRow(rows)
             ext == ForecastLoop(curves, last_row.segment_id,
                                 last_row.month_on_book + 1, max_month,
                                 last_row.outstanding_balance)
         IN  IF ext.raised # "none"
             THEN [raised |-> ext.raised, rows |-> <<>>]
             ELSE [raised |-> "none", rows |-> SortByMonth(forecast_df \o ext.rows)]

\* ForecastGenerator.generate_forecast: [raised, rows].  A table without rows
\* has no last row: .iloc[0] raises IndexError.
generate_forecast(curves, rows, max_month) ==
    IF rows = <<>>
    THEN [raised |-> "IndexError", rows |-> <<>>]
    ELSE LET forecast_df == [i \in 1..Len(rows) |-> WithFlag(rows[i], "Actual")]
             last_row == LastKnownRow(rows)
             last_known_month == last_row.month_on_book
             current_balance == implied_next_balance(last_row)
             ext == ForecastLoop(curves, last_row.segment_id, last_known_month + 1,
                                 max_month, current_balance)
         IN  IF ext.raised # "none"
             THEN [raised |-> ext.raised, rows |-> <<>>]
             ELSE [raised |-> "none", rows |-> SortByMonth(forecast_df \o ext.rows)]

(***************************************************************************)
(* OutputFormatter                                                         *)
(***************************************************************************)
\* OutputRecord with the three ratios as percentages of the origination.
OutputRecord_percent(r, origination_amount) ==
    [month_on_book |-> r.month_on_book,
     outstanding_balance_ratio |->
         FMul(Num(100), FDiv(r.outstanding_balance, origination_amount)),
     payments_ratio |-> FMul(Num(100), FDiv(r.payments, origination_amount)),
     chargeoffs_ratio |-> FMul(Num(100), FDiv(r.chargeoffs, origination_amount)),
     payment_hazard_rate |-> FDiv(r.payments, r.outstanding_balance),
     chargeoff_hazard_rate |-> FDiv(r.chargeoffs, r.outstanding_balance),
     forecast_flag |-> r.forecast_flag]

OutputRecord(r, origination_amount) ==
    [month_on_book |-> r.month_on_book,
     outstanding_balance_ratio |-> FDiv(r.outstanding_balance, origination_amount),
     payments_ratio |-> FDiv(r.payments, origination_amount),
     chargeoffs_ratio |-> FDiv(r.chargeoffs, origination_amount),
     payment_hazard_rate |-> FDiv(r.payments, r.outstanding_balance),
     chargeoff_hazard_rate |-> FDiv(r.chargeoffs, r.outstanding_balance),
     forecast_flag |-> r.forecast_flag]

format_curves_output(forecast_df, origination_amount) ==
    [i \in 1..Len(forecast_df) |-> OutputRecord(forecast_df[i], origination_amount)]

(***************************************************************************)
(* SurvivalCreditModel: the operations as functions of the state before    *)
(* the call.  Each gives the exception raised ("none" when the call        *)
(* returns), the state after the call and the returned value.              *)
(***************************************************************************)
\* TrainOutcome of a train that clears is_trained before it validates.
TrainOutcome_resets_flag(trained, curves, validation_results, fitted) ==
    IF ~validation_results.valid
    THEN [raised |-> "ValidationError",
          is_trained |-> FALSE,
          hazard_curves |-> curves,
          validation_results |-> validation_results]
    ELSE [raised |-> "none",
          is_trained |-> TRUE,
          hazard_curves |-> fitted,
          validation_results |-> validation_results]

\* TrainOutcome of a train that empties the estimator before it validates.
TrainOutcome_clears_curve(trained, curves, validation_results, fitted) ==
    IF ~validation_results.valid
    THEN [raised |-> "ValidationError",
          is_trained |-> trained,
          hazard_curves |-> EmptyDict,
          validation_results |-> validation_results]
    ELSE [raised |-> "none",
          is_trained |-> TRUE,
          hazard_curves |-> fitted,
          validation_results |-> validation_results]

\* The body of train, given the results of validate_data and (when the table
\* is accepted) of fit: the raise on an invalid table comes before fit and
\* before the assignment of is_trained.
TrainOutcome(trained, curves, validation_results, fitted) ==
    IF ~validation_results.valid
    THEN [raised |-> "ValidationError",
          is_trained |-> trained,
          hazard_curves |-> curves,
          validation_results |-> validation_results]
    ELSE [raised |-> "none",
          is_trained |-> TRUE,
          hazard_curves |-> fitted,
          validation_results |-> validation_results]

train(trained, curves, smoothing_window, df) ==
    TrainOutcome(trained, curves, validate_data(df),
                 fit(curves, smoothing_window, df.rows))

\* The state check forecast starts with, left out.
ForecastGuard_skipped(trained) ==
    "none"

\* The state check forecast starts with.
ForecastGuard(trained) ==
    IF ~trained THEN "NotTrained" ELSE "none"

\* The first exception among the steps of forecast, in the order of the code.
ForecastRaised(guard, validation_results, curve_validation, forecast_df) ==
    IF guard # "none" THEN guard
    ELSE IF ~validation_results.valid THEN "ValidationError"
    ELSE IF curve_validation.raised # "none" THEN curve_validation.raised
    ELSE forecast_df.raised

\* The body of forecast, given the results of its steps (a step is evaluated
\* only when the steps before it have not raised).
ForecastOutcome(trained, curves, raised, validation_results, curve_validation, forecast_df, origination_amount) ==
    IF raised # "none"
    THEN [raised |-> raised,
          is_trained |-> trained,
          hazard_curves |-> curves,
          formatted_output |-> <<>>,
          data_validation |-> EmptyDict,
          curve_validation |-> EmptyDict]
    ELSE [raised |-> "none",
          is_trained |-> trained,
          hazard_curves |-> curves,
          formatted_output |-> format_curves_output(forecast_df.rows, origination_amount),
          data_validation |-> validation_results,
          curve_validation |-> curve_validation]

ForecastSteps(trained, curves, validation_results, curve_validation, forecast_df, origination_amount) ==
    ForecastOutcome(trained, curves,
                    ForecastRaised(ForecastGuard(trained), validation_results,
                                   curve_validation, forecast_df),
                    validation_results, curve_validation, forecast_df,
                    origination_amount)

forecast(trained, curves, df, origination_amount, max_month) ==
    ForecastSteps(trained, curves, validate_data(df),
                  validate_known_actuals(curves, df.rows),
                  generate_forecast(curves, df.rows, max_month),
                  origination_amount)

get_hazard_curves(trained, curves) ==
    IF ~trained THEN [error |-> "Model not trained"] ELSE curves

(***************************************************************************)
(* Inputs                                                                  *)
(***************************************************************************)
\* The most rows of a training table.
MaxTrainRows ==
    2

\* The most rows of a table of known actuals.
MaxActualRows ==
    2

\* The largest max_month a caller asks for.
MaxMonth ==
    3

Row(segment_id, month, flow) ==
    [segment_id |-> segment_id,
     month_on_book |-> month,
     outstanding_balance |-> Cents(flow[1]),
     payments |-> Cents(flow[2]),
     chargeoffs |-> Cents(flow[3])]

\* The rows of training tables; a flow is
\* <<outstanding_balance, payments, chargeoffs>> in cents.
TrainRows ==
    { Row("A", 0, <<10000, 5000, 0>>),      \* half the balance paid
      Row("A", 3, <<10000, 2500, 2500>>),   \* a later age, two ages missing
      Row("B", 0, <<10000, -5000, 0>>),     \* a second segment, negative payments
      Row("B", 1, <<0, 5000, 0>>),          \* a payment on a zero balance
      Row("B", 0, <<30000, 30000, 0>>) }    \* a segment of another size, paid off

\* The rows of tables of known actuals.
ActualRows ==
    { Row("A", 0, <<10000, 5000, 0>>),
      Row("A", 1, <<5000, 2500, 2500>>),    \* follows the row above; all flows out
      Row("A", 0, <<-10000, 5000, 0>>),     \* negative balance
      Row("A", 1, <<0, 0, 0>>),             \* zero balance
      Row("A", 0, <<4, 2, 0>>),             \* two cents left
      Row("A", 1, <<10000, 0, -5000>>),     \* negative chargeoffs
      Row("B", -1, <<10000, 20000, 0>>) }   \* a second segment, negative month,
                                            \* payments above the balance

SeqsUpTo(S, n) ==
    UNION {[1..k -> S] : k \in 0..n}

FlowTable(rows) ==
    [columns |-> REQUIRED_COLUMNS, rows |-> rows]

\* A table without the required columns (test_error_handling, test 2).
BadTable ==
    [columns |-> {"wrong_column", "another_wrong"},
     rows |-> <<[wrong_column |-> 1, another_wrong |-> 4],
                [wrong_column |-> 2, another_wrong |-> 5],
                [wrong_column |-> 3, another_wrong |-> 6]>>]

\* A table without the chargeoffs column, whose rows have a negative month, a
\* zero balance, negative payments and a missing month.
PartialTable ==
    [columns |-> REQUIRED_COLUMNS \ {"chargeoffs"},
     rows |-> <<[segment_id |-> "A", month_on_book |-> -1,
                 outstanding_balance |-> Cents(0), payments |-> Cents(-5000)],
                [segment_id |-> "A", month_on_book |-> 1,
                 outstanding_balance |-> Cents(10000), payments |-> Cents(0)]>>]

TrainFlowTables ==
    {FlowTable(rows) : rows \in SeqsUpTo(TrainRows, MaxTrainRows)}

ActualFlowTables ==
    {FlowTable(rows) : rows \in SeqsUpTo(ActualRows, MaxActualRows)}

\* A training table of three ages, of raw payment rates 1/2, 1/4 and 0.
SmoothingTable ==
    FlowTable(<<Row("A", 0, <<10000, 5000, 0>>),
                Row("A", 1, <<5000, 1250, 0>>),
                Row("A", 2, <<3750, 0, 0>>)>>)

TrainTables ==
    TrainFlowTables \cup {BadTable, PartialTable, SmoothingTable}

ActualTables ==
    ActualFlowTables \cup {BadTable, PartialTable}

\* Tables of one segment over three ages for the balance flow check.
FlowCheckTables ==
    { \* balances 1000, 900, 810: every balance is what the row before leaves
      FlowTable(<<Row("X", 0, <<100000, 10000, 0>>),
                  Row("X", 1, <<90000, 4500, 4500>>),
                  Row("X", 2, <<81000, 0, 0>>)>>),
      \* given out of age order; neither pair is consistent
      FlowTable(<<Row("X", 2, <<90000, 0, 0>>),
                  Row("X", 0, <<100000, 10000, 0>>),
                  Row("X", 1, <<50000, 0, 0>>)>>),
      \* one cent off after age 0, two cents off after age 1
      FlowTable(<<Row("X", 0, <<100000, 10000, 0>>),
                  Row("X", 1, <<89999, 0, 0>>),
                  Row("X", 2, <<89997, 0, 0>>)>>) }

ValidateTables ==
    ActualTables \cup FlowCheckTables

\* Known actuals of two ages, the second balance what the first row leaves.
ProjectionTable ==
    FlowTable(<<Row("A", 0, <<10000, 5000, 0>>),
                Row("A", 1, <<5000, 2500, 0>>)>>)

ExtendTables ==
    ActualFlowTables \cup {ProjectionTable}

SmoothingWindows ==
    {1, 3}

OriginationAmounts ==
    {Num(100)}

MaxMonths ==
    {1, MaxMonth}

QueryMonths ==
    -1..MaxMonth

(***************************************************************************)
(* State                                                                   *)
(***************************************************************************)
VARIABLES
    is_trained,        \* SurvivalCreditModel.is_trained
    hazard_curves,     \* HazardRateEstimator.hazard_curves
    smoothing_window,  \* HazardRateEstimator.smoothing_window
    ret                \* the call that has returned to the caller (its arguments,
                       \* the exception raised and the value returned), or NoCall

vars ==
    <<is_trained, hazard_curves, smoothing_window, ret>>

NoCall ==
    [op |-> "none"]

\* SurvivalCreditModel.__init__ and HazardRateEstimator.__init__
Init ==
    /\ is_trained = FALSE
    /\ hazard_curves = EmptyDict
    /\ smoothing_window \in SmoothingWindows
    /\ ret = NoCall

Train(df) ==
    /\ ret = NoCall
    /\ \E r \in {train(is_trained, hazard_curves, smoothing_window, df)} :
           /\ is_trained' = r.is_trained
           /\ hazard_curves' = r.hazard_curves
           /\ ret' = [op |-> "train", df |-> df, raised |-> r.raised,
                      validation_results |-> r.validation_results,
                      curves_before |-> hazard_curves]
    /\ UNCHANGED smoothing_window

Forecast(df, origination_amount, max_month) ==
    /\ ret = NoCall
    /\ \E r \in {forecast(is_trained, hazard_curves, df, origination_amount, max_month)} :
           /\ is_trained' = r.is_trained
           /\ hazard_curves' = r.hazard_curves
           /\ ret' = [op |-> "forecast", df |-> df,
                      origination_amount |-> origination_amount,
                      max_month |-> max_month, raised |-> r.raised,
                      formatted_output |-> r.formatted_output,
                      data_validation |-> r.data_validation,
                      curve_validation |-> r.curve_validation]
    /\ UNCHANGED smoothing_window

GetHazardCurves ==
    /\ ret = NoCall
    /\ ret' = [op |-> "get_hazard_curves", raised |-> "none",
               value |-> get_hazard_curves(is_trained, hazard_curves)]
    /\ UNCHANGED <<is_trained, hazard_curves, smoothing_window>>

\* model.validator.validate_data(df)
Validate(df) ==
    /\ ret = NoCall
    /\ ret' = [op |-> "validate", df |-> df, raised |-> "none",
               results |-> validate_data(df)]
    /\ UNCHANGED <<is_trained, hazard_curves, smoothing_window>>

\* model.rate_estimator.get_hazard_rate(month, hazard_type)
GetRate(month, hazard_type) ==
    /\ ret = NoCall
    /\ \E r \in {get_hazard_rate(hazard_curves, month, hazard_type)} :
           ret' = [op |-> "get_rate", month |-> month, hazard_type |-> hazard_type,
                   raised |-> r.raised, value |-> r.value]
    /\ UNCHANGED <<is_trained, hazard_curves, smoothing_window>>

\* model.curve_engine.validate_known_actuals(df)
Compare(df) ==
    /\ ret = NoCall
    /\ \E r \in {validate_known_actuals(hazard_curves, df.rows)} :
           ret' = [op |-> "compare", df |-> df, raised |-> r.raised, results |-> r]
    /\ UNCHANGED <<is_trained, hazard_curves, smoothing_window>>

\* model.forecast_generator.generate_forecast(known_actuals, max_month)
Extend(df, max_month) ==
    /\ ret = NoCall
    /\ \E r \in {generate_forecast(hazard_curves, df.rows, max_month)} :
           ret' = [op |-> "extend", df |-> df, max_month |-> max_month,
                   raised |-> r.raised, rows |-> r.rows]
    /\ UNCHANGED <<is_trained, hazard_curves, smoothing_window>>

\* The caller takes the returned value or the exception and goes on.
Return ==
    /\ ret # NoCall
    /\ ret' = NoCall
    /\ UNCHANGED <<is_trained, hazard_curves, smoothing_window>>

Next ==
    \/ \E df \in TrainTables : Train(df)
    \/ \E df \in ActualTables, a \in OriginationAmounts, m \in MaxMonths :
          Forecast(df, a, m)
    \/ GetHazardCurves
    \/ \E df \in ValidateTables : Validate(df)
    \/ \E m \in QueryMonths, k \in HAZARD_TYPES : GetRate(m, k)
    \/ \E df \in ActualFlowTables : Compare(df)
    \/ \E df \in ExtendTables, m \in MaxMonths : Extend(df, m)
    \/ Return

Spec ==
    Init /\ [][Next]_vars

(***************************************************************************)
(* train, statement by statement.  After validate_data has accepted the    *)
(* table, train first calls fit, which assigns hazard_curves, and then     *)
(* assigns is_trained; between the two the call is in progress and no      *)
(* other call runs.                                                        *)
(***************************************************************************)
\* TrainStep of a train that assigns is_trained before it calls fit.
TrainStep_flag_first(step, trained, curves, fitted) ==
    IF step = 1
    THEN [is_trained |-> TRUE, hazard_curves |-> curves]
    ELSE [is_trained |-> trained, hazard_curves |-> fitted]

\* The state after the first (fit assigns hazard_curves) and after the
\* second (is_trained = True) of the two assignments of train.
TrainStep(step, trained, curves, fitted) ==
    IF step = 1
    THEN [is_trained |-> trained, hazard_curves |-> fitted]
    ELSE [is_trained |-> TRUE, hazard_curves |-> curves]

\* train up to its raise on an invalid table, or up to the return of fit.
TrainFit(df) ==
    /\ ret = NoCall
    /\ \E v \in {validate_data(df)} :
          IF ~v.valid
          THEN /\ ret' = [op |-> "train", df |-> df, raised |-> "ValidationError",
                          validation_results |-> v,
                          curves_before |-> hazard_curves]
               /\ UNCHANGED <<is_trained, hazard_curves>>
          ELSE /\ \E s \in {TrainStep(1, is_trained, hazard_curves,
                                      fit(hazard_curves, smoothing_window, df.rows))} :
                     /\ is_trained' = s.is_trained
                     /\ hazard_curves' = s.hazard_curves
               /\ ret' = [op |-> "train_in_progress", df |-> df,
                          validation_results |-> v,
                          curves_before |-> hazard_curves]
    /\ UNCHANGED smoothing_window

\* train from the return of fit to its own return.
TrainSetFlag ==
    /\ ret.op = "train_in_progress"
    /\ \E s \in {TrainStep(2, is_trained, hazard_curves,
                           fit(ret.curves_before, smoothing_window, ret.df.rows))} :
          /\ is_trained' = s.is_trained
          /\ hazard_curves' = s.hazard_curves
    /\ ret' = [op |-> "train", df |-> ret.df, raised |-> "none",
               validation_results |-> ret.validation_results,
               curves_before |-> ret.curves_before]
    /\ UNCHANGED smoothing_window

StepNext ==
    \/ \E df \in TrainTables : TrainFit(df)
    \/ TrainSetFlag
    \/ \E df \in ActualTables, a \in OriginationAmounts, m \in MaxMonths :
          Forecast(df, a, m)
    \/ Return

StepSpec ==
    Init /\ [][StepNext]_vars

(***************************************************************************)
(* Properties                                                              *)
(***************************************************************************)
HasColumns(df) ==
    REQUIRED_COLUMNS \subseteq df.columns

Returned(op) ==
    ret.op = op /\ ret.raised = "none"

\* generate_forecast has returned its rows, on a fitted estimator.
Extended ==
    Returned("extend") /\ DOMAIN hazard_curves # {}

ForecastRows(rows) ==
    SelectSeq(rows, LAMBDA r : r.forecast_flag = "Forecast")

\* C1: forecast on a pipeline that is not trained raises NotTrained, and
\* get_hazard_rate on an estimator that was never fitted raises NotFitted;
\* neither call changes is_trained or hazard_curves.
C1_OutOfSequenceRaises ==
    [][ /\ (ret'.op = "forecast" /\ ~is_trained)
           => /\ ret'.raised = "NotTrained"
              /\ is_trained' = is_trained
              /\ hazard_curves' = hazard_curves
        /\ (ret'.op = "get_rate" /\ DOMAIN hazard_curves = {})
           => /\ ret'.raised = "NotFitted"
              /\ is_trained' = is_trained
              /\ hazard_curves' = hazard_curves ]_vars

\* forecast of a well-formed table with rows has raised NotTrained.
C1_Witness ==
    /\ ret.op = "forecast"
    /\ ret.raised = "NotTrained"
    /\ HasColumns(ret.df)
    /\ ret.df.rows # <<>>
    /\ ~is_trained
    /\ hazard_curves = EmptyDict

\* C2: validate of a table with all required columns and a negative payments
\* or chargeoffs value returns valid = FALSE.
C2_NegativeFlowsInvalid ==
    ( /\ ret.op = "validate"
      /\ HasColumns(ret.df)
      /\ \E i \in 1..Len(ret.df.rows) :
            \/ FLt(ret.df.rows[i].payments, Zero)
            \/ FLt(ret.df.rows[i].chargeoffs, Zero) )
    => ret.results.valid = FALSE

\* C3: train of a table with a negative payments, chargeoffs or
\* month_on_book value raises a validation error.
C3_TrainRejectsNegatives ==
    ( /\ ret.op = "train"
      /\ HasColumns(ret.df)
      /\ \E i \in 1..Len(ret.df.rows) :
            \/ FLt(ret.df.rows[i].payments, Zero)
            \/ FLt(ret.df.rows[i].chargeoffs, Zero)
            \/ ret.df.rows[i].month_on_book < 0 )
    => ret.raised = "ValidationError"

\* C4: once is_trained is set it stays set, whatever call comes next and
\* whether or not that call raises.
C4_TrainedStaysTrained ==
    [][is_trained => is_trained']_vars

\* A retrain of a trained pipeline has raised.
C4_Witness ==
    /\ is_trained
    /\ ret.op = "train"
    /\ ret.raised = "ValidationError"

\* C5: is_trained and hazard_curves change only in a train call that returns.
C5_OnlySuccessfulTrainChanges ==
    [][ (is_trained' # is_trained \/ hazard_curves' # hazard_curves)
        => (ret'.op = "train" /\ ret'.raised = "none") ]_vars

\* A retrain has raised and the curve fitted before is still stored.
C5_Witness ==
    /\ ret.op = "train"
    /\ ret.raised = "ValidationError"
    /\ DOMAIN hazard_curves # {}
    /\ DOMAIN hazard_curves.payment_hazard # {}
    /\ hazard_curves = ret.curves_before

\* C6: after a train call that returns, the stored curve is the curve a fresh
\* estimator of the same smoothing window fits to that call's table.
C6_CurveFromLastTableAlone ==
    Returned("train")
    => LET fresh == fit(EmptyDict, smoothing_window, ret.df.rows)
       IN  /\ hazard_curves.payment_hazard = fresh.payment_hazard
           /\ hazard_curves.chargeoff_hazard = fresh.chargeoff_hazard
           /\ hazard_curves.training_data = fresh.training_data

\* A retrain has replaced a curve that had an age the new table lacks.
C6_Witness ==
    /\ Returned("train")
    /\ DOMAIN ret.curves_before # {}
    /\ \E m \in DOMAIN ret.curves_before.payment_hazard :
          m \notin DOMAIN hazard_curves.payment_hazard

\* C7 as claimed: every row generate_forecast returns has
\* outstanding_balance >= 0.
C7_NoNegativeBalance ==
    Extended
    => \A i \in 1..Len(ret.rows) : FGe(ret.rows[i].outstanding_balance, Zero)

\* C7 amended: every Forecast row has outstanding_balance >= 0, and every row
\* has when no row of the known actuals has a negative balance.
C7_ForecastRowsNotNegative ==
    Extended
    => /\ \A i \in 1..Len(ret.rows) :
             ret.rows[i].forecast_flag = "Forecast"
             => FGe(ret.rows[i].outstanding_balance, Zero)
       /\ (\A j \in 1..Len(ret.df.rows) :
              FGe(ret.df.rows[j].outstanding_balance, Zero))
          => \A i \in 1..Len(ret.rows) : FGe(ret.rows[i].outstanding_balance, Zero)

\* A Forecast row whose payments and chargeoffs exceed its balance.
C7_Witness ==
    /\ Extended
    /\ \E i \in 1..Len(ret.rows) :
          /\ ret.rows[i].forecast_flag = "Forecast"
          /\ FGt(FAdd(ret.rows[i].payments, ret.rows[i].chargeoffs),
                 ret.rows[i].outstanding_balance)

\* C8 as claimed: in the rows generate_forecast returns, in age order, no
\* balance is above the balance of the row before it.
C8_BalancesNonIncreasing ==
    Extended
    => \A i \in 1..(Len(ret.rows) - 1) :
          FLe(ret.rows[i + 1].outstanding_balance, ret.rows[i].outstanding_balance)

\* C8 amended: a Forecast row that follows a Forecast row has a balance no
\* larger than that row's, when the two rates of the curve at that row's age
\* are not negative.
C8_ForecastBalancesNonIncreasing ==
    Extended
    => \A i \in 1..(Len(ret.rows) - 1) :
          ( /\ ret.rows[i].forecast_flag = "Forecast"
            /\ ret.rows[i + 1].forecast_flag = "Forecast"
            /\ FGe(get_hazard_rate(hazard_curves, ret.rows[i].month_on_book,
                                   "payment").value, Zero)
            /\ FGe(get_hazard_rate(hazard_curves, ret.rows[i].month_on_book,
                                   "chargeoff").value, Zero) )
          => FLe(ret.rows[i + 1].outstanding_balance, ret.rows[i].outstanding_balance)

\* Two Forecast rows in a row, the second of a smaller balance.
C8_Witness ==
    /\ Extended
    /\ \E i \in 1..(Len(ret.rows) - 1) :
          /\ ret.rows[i].forecast_flag = "Forecast"
          /\ ret.rows[i + 1].forecast_flag = "Forecast"
          /\ FGt(get_hazard_rate(hazard_curves, ret.rows[i].month_on_book,
                                 "payment").value, Zero)
          /\ FLt(ret.rows[i + 1].outstanding_balance, ret.rows[i].outstanding_balance)

\* C9: every Forecast row has a balance above $0.01; a Forecast row that
\* leaves a balance of $0.01 or less is the last row; and there is no Forecast
\* row when the last known row leaves $0.01 or less.
C9_StopsAtFloor ==
    Extended
    => LET fr == ForecastRows(ret.rows)
       IN  /\ \A i \in 1..Len(fr) : FGt(fr[i].outstanding_balance, Frac(1, 100))
           /\ \A i \in 1..Len(fr) :
                 ~FGt(implied_next_balance(fr[i]), Frac(1, 100)) => i = Len(fr)
           /\ \A i \in 1..Len(fr) :
                 \A j \in 1..Len(fr) : i < j => fr[i].month_on_book < fr[j].month_on_book
           /\ ~FGt(implied_next_balance(LastKnownRow(ret.df.rows)), Frac(1, 100))
              => fr = <<>>

\* The forecast has stopped before max_month on a balance of exactly $0.01.
C9_Witness ==
    /\ Extended
    /\ LET fr == ForecastRows(ret.rows)
       IN  /\ fr # <<>>
           /\ Last(fr).month_on_book < ret.max_month
           /\ implied_next_balance(Last(fr)) = Frac(1, 100)

\* C10: on a trained pipeline, forecast of a table that validate_data accepts
\* returns and does not raise.
C10_ForecastFinishes ==
    ( /\ ret.op = "forecast"
      /\ is_trained
      /\ validate_data(ret.df).valid )
    => ret.raised = "none"

\* The mapping get_hazard_rate has read for the call that has returned.
QueriedRates ==
    hazard_curves[curve_key(ret.hazard_type)]

InUnit(x) ==
    FGe(x, Zero) /\ FLe(x, One)

\* C11: on a fitted curve with known ages, get_hazard_rate of an age at or
\* below the smallest known age is the stored rate of the smallest known age,
\* and of an age at or above the largest known age the stored rate of the
\* largest known age, for both kinds.
C11_FlatExtrapolation ==
    Returned("get_rate")
    => \A a \in DOMAIN QueriedRates :
          /\ ( (\A b \in DOMAIN QueriedRates : a <= b) /\ ret.month <= a )
             => ret.value = QueriedRates[a]
          /\ ( (\A b \in DOMAIN QueriedRates : a >= b) /\ ret.month >= a )
             => ret.value = QueriedRates[a]

\* A query above every known age of a curve whose rates at two ages differ
\* and whose rate at the largest age is not zero.
C11_Witness ==
    /\ Returned("get_rate")
    /\ \E a, b \in DOMAIN QueriedRates :
          /\ a < b
          /\ \A c \in DOMAIN QueriedRates : c <= b
          /\ b < ret.month
          /\ IsFinite(QueriedRates[a])
          /\ FGt(QueriedRates[b], Zero)
          /\ QueriedRates[a] # QueriedRates[b]
          /\ ret.value = QueriedRates[b]

\* C12: get_hazard_rate of a known age is the stored rate, and of an age m
\* between neighbouring known ages a < m < b it is r_a*(1-w) + r_b*w with
\* w = (m-a)/(b-a); at the midpoint that is the average of r_a and r_b.
C12_ExactAndLinear ==
    Returned("get_rate")
    => /\ ret.month \in DOMAIN QueriedRates => ret.value = QueriedRates[ret.month]
       /\ \A a, b \in DOMAIN QueriedRates :
             ( /\ a < ret.month
               /\ ret.month < b
               /\ ~\E c \in DOMAIN QueriedRates : a < c /\ c < b )
             => /\ ret.value =
                      FAdd(FMul(QueriedRates[a],
                                FSub(Num(1), Frac(ret.month - a, b - a))),
                           FMul(QueriedRates[b], Frac(ret.month - a, b - a)))
                /\ (2 * ret.month = a + b)
                   => ret.value = FDiv(FAdd(QueriedRates[a], QueriedRates[b]), Num(2))

\* A query one third of the way between two known ages of different finite
\* rates.
C12_Witness ==
    /\ Returned("get_rate")
    /\ \E a, b \in DOMAIN QueriedRates :
          /\ a < ret.month
          /\ ret.month < b
          /\ 3 * (ret.month - a) = b - a
          /\ IsFinite(QueriedRates[a])
          /\ IsFinite(QueriedRates[b])
          /\ QueriedRates[a] # QueriedRates[b]
          /\ ret.value # QueriedRates[a]
          /\ ret.value # QueriedRates[b]

\* The records of the table of the call that are of age m.
RecordsOfAge(m) ==
    SelectSeq(ret.df.rows, LAMBDA r : r.month_on_book = m)

\* C13: with smoothing window 1, after a train call that returns the curve has
\* the ages of the table, and its rate at an age is the sum of the flow over
\* all records of that age, of every segment, divided by the sum of their
\* balances (where that sum is not zero).
C13_AggregateBeforeDividing ==
    ( Returned("train") /\ smoothing_window = 1 )
    => /\ DOMAIN hazard_curves.payment_hazard =
             {ret.df.rows[i].month_on_book : i \in 1..Len(ret.df.rows)}
       /\ DOMAIN hazard_curves.chargeoff_hazard = DOMAIN hazard_curves.payment_hazard
       /\ \A m \in DOMAIN hazard_curves.payment_hazard :
             LET recs == RecordsOfAge(m)
                 bal == FSum([i \in 1..Len(recs) |-> recs[i].outstanding_balance])
                 pay == FSum([i \in 1..Len(recs) |-> recs[i].payments])
                 co == FSum([i \in 1..Len(recs) |-> recs[i].chargeoffs])
             IN  ~IsZero(bal)
                 => /\ hazard_curves.payment_hazard[m] = FDiv(pay, bal)
                    /\ hazard_curves.chargeoff_hazard[m] = FDiv(co, bal)

\* Two segments of different size at one age, with flows within their
\* balances: the stored rate is not the mean of the two segments' rates.
C13_Witness ==
    /\ Returned("train")
    /\ smoothing_window = 1
    /\ Len(ret.df.rows) = 2
    /\ LET r1 == ret.df.rows[1]
           r2 == ret.df.rows[2]
       IN  /\ r1.segment_id # r2.segment_id
           /\ r1.month_on_book = r2.month_on_book
           /\ FGt(r1.outstanding_balance, Zero)
           /\ FGt(r2.outstanding_balance, r1.outstanding_balance)
           /\ FGe(r1.payments, Zero)
           /\ FGe(r2.payments, Zero)
           /\ hazard_curves.payment_hazard[r1.month_on_book] =
                 FDiv(FAdd(r1.payments, r2.payments),
                      FAdd(r1.outstanding_balance, r2.outstanding_balance))
           /\ hazard_curves.payment_hazard[r1.month_on_book] #
                 FDiv(FAdd(FDiv(r1.payments, r1.outstanding_balance),
                           FDiv(r2.payments, r2.outstanding_balance)), Num(2))

\* C14: after a train call that returns, every row of the aggregate table
\* whose summed outstanding_balance is 0 has raw payment and chargeoff rates
\* of 0, whatever its summed payments and chargeoffs are.
C14_ZeroBalanceRateZero ==
    Returned("train")
    => \A j \in 1..Len(hazard_curves.training_data) :
          IsZero(hazard_curves.training_data[j].outstanding_balance)
          => /\ hazard_curves.training_data[j].payment_hazard_rate = Zero
             /\ hazard_curves.training_data[j].chargeoff_hazard_rate = Zero

\* Every rate of the two mappings of a curve is within [0, 1].
CurveInUnit(curves) ==
    /\ \A m \in DOMAIN curves.payment_hazard : InUnit(curves.payment_hazard[m])
    /\ \A m \in DOMAIN curves.chargeoff_hazard : InUnit(curves.chargeoff_hazard[m])

\* Every record has payments and chargeoffs between 0 and its balance.
WithinBalance(rows) ==
    \A i \in 1..Len(rows) :
       /\ FGe(rows[i].payments, Zero)
       /\ FLe(rows[i].payments, rows[i].outstanding_balance)
       /\ FGe(rows[i].chargeoffs, Zero)
       /\ FLe(rows[i].chargeoffs, rows[i].outstanding_balance)

\* C15 as claimed: every rate of a curve stored by a train call that returns
\* is within [0, 1], and so are the two hazard rates of every row that
\* forecast returns.
C15_RatesInUnitInterval ==
    /\ Returned("train") => CurveInUnit(hazard_curves)
    /\ Returned("forecast")
       => \A i \in 1..Len(ret.formatted_output) :
             /\ InUnit(ret.formatted_output[i].payment_hazard_rate)
             /\ InUnit(ret.formatted_output[i].chargeoff_hazard_rate)

\* C15 amended: the rates of the curve are within [0, 1] when every record of
\* the training table has its flows between 0 and its balance; and when the
\* rates of the curve are within [0, 1], so are the rates of every Forecast
\* row forecast returns, and of every Actual row when every record of the known
\* actuals has its flows between 0 and its balance.
C15_RatesInUnitForFlowsWithinBalance ==
    /\ ( Returned("train") /\ WithinBalance(ret.df.rows) )
       => CurveInUnit(hazard_curves)
    /\ ( Returned("forecast") /\ CurveInUnit(hazard_curves) )
       => \A i \in 1..Len(ret.formatted_output) :
             ( \/ ret.formatted_output[i].forecast_flag = "Forecast"
               \/ WithinBalance(ret.df.rows) )
             => /\ InUnit(ret.formatted_output[i].payment_hazard_rate)
                /\ InUnit(ret.formatted_output[i].chargeoff_hazard_rate)

\* forecast has returned an Actual and a Forecast row, both of a payment rate
\* strictly between 0 and 1, from a curve and known actuals within range.
C15_Witness ==
    /\ Returned("forecast")
    /\ CurveInUnit(hazard_curves)
    /\ WithinBalance(ret.df.rows)
    /\ \E i, j \in 1..Len(ret.formatted_output) :
          /\ ret.formatted_output[i].forecast_flag = "Actual"
          /\ ret.formatted_output[j].forecast_flag = "Forecast"
          /\ FGt(ret.formatted_output[i].payment_hazard_rate, Zero)
          /\ FLt(ret.formatted_output[i].payment_hazard_rate, One)
          /\ FGt(ret.formatted_output[j].payment_hazard_rate, Zero)
          /\ FLt(ret.formatted_output[j].payment_hazard_rate, One)

\* The balance flow warnings validate_data has returned for segment g.
FlowWarnings(g) ==
    SelectSeq(ret.results.warnings,
              LAMBDA w : w[1] = "Balance flow inconsistency" /\ w[2] = g)

\* The positions in the month-ordered rows of segment g whose balance less
\* payments less chargeoffs differs from the next balance by more than $0.01.
OffendingPairs(g) ==
    LET sd == SortByMonth(SegmentRows(ret.df.rows, g))
    IN  {i \in 1..(Len(sd) - 1) :
            FGt(FAbs(FSub(FSub(FSub(sd[i].outstanding_balance, sd[i].payments),
                               sd[i].chargeoffs),
                          sd[i + 1].outstanding_balance)),
                Frac(1, 100))}

\* C16: validate_data gives a segment a balance flow warning exactly when
\* some consecutive pair of its month-ordered rows is off by more than $0.01,
\* gives it one such warning at most, naming the month of the first offending
\* pair, and gives none to a table whose segments are all consistent.
C16_FlowWarningPerSegment ==
    ( ret.op = "validate" /\ HasColumns(ret.df) )
    => /\ \A g \in {ret.df.rows[i].segment_id : i \in 1..Len(ret.df.rows)} :
             /\ Len(FlowWarnings(g)) = IF OffendingPairs(g) = {} THEN 0 ELSE 1
             /\ OffendingPairs(g) # {}
                => \E i \in OffendingPairs(g) :
                      /\ \A j \in OffendingPairs(g) : i <= j
                      /\ FlowWarnings(g)[1][3] =
                            {SortByMonth(SegmentRows(ret.df.rows, g))[i].month_on_book}
       /\ \A k \in 1..Len(ret.results.warnings) :
             ret.results.warnings[k][1] = "Balance flow inconsistency"
             => \E i \in 1..Len(ret.df.rows) :
                   ret.df.rows[i].segment_id = ret.results.warnings[k][2]

\* A segment given out of age order with two offending pairs has one warning.
C16_Witness ==
    /\ ret.op = "validate"
    /\ HasColumns(ret.df)
    /\ Len(ret.df.rows) = 3
    /\ ret.df.rows[1].month_on_book > ret.df.rows[2].month_on_book
    /\ \E i, j \in OffendingPairs("X") : i < j
    /\ Len(FlowWarnings("X")) = 1

\* C17: the table forecast returns has one record per row of the forecast
\* generate_forecast gives for the call, in the same order, of the same
\* month_on_book and forecast_flag, and each ratio is the row's amount divided
\* by origination_amount; so is the outstanding_balance_ratio of the last row.
C17_OneOutputRecordPerRow ==
    Returned("forecast")
    => \A fr \in {generate_forecast(hazard_curves, ret.df.rows, ret.max_month).rows} :
          /\ Len(ret.formatted_output) = Len(fr)
          /\ \A i \in 1..Len(fr) :
                /\ ret.formatted_output[i].month_on_book = fr[i].month_on_book
                /\ ret.formatted_output[i].forecast_flag = fr[i].forecast_flag
                /\ ret.formatted_output[i].outstanding_balance_ratio =
                      FDiv(fr[i].outstanding_balance, ret.origination_amount)
                /\ ret.formatted_output[i].payments_ratio =
                      FDiv(fr[i].payments, ret.origination_amount)
                /\ ret.formatted_output[i].chargeoffs_ratio =
                      FDiv(fr[i].chargeoffs, ret.origination_amount)
          /\ fr # <<>>
             => Last(ret.formatted_output).outstanding_balance_ratio =
                   FDiv(Last(fr).outstanding_balance, ret.origination_amount)

\* forecast has returned two Actual rows given out of age order and at least
\* two Forecast rows, the last of a balance that is not the origination amount.
C17_Witness ==
    /\ Returned("forecast")
    /\ Len(ret.df.rows) = 2
    /\ ret.df.rows[1].month_on_book > ret.df.rows[2].month_on_book
    /\ Len(ret.formatted_output) >= 4
    /\ ret.formatted_output[1].forecast_flag = "Actual"
    /\ ret.formatted_output[1].month_on_book = ret.df.rows[2].month_on_book
    /\ Last(ret.formatted_output).forecast_flag = "Forecast"
    /\ FGt(Last(ret.formatted_output).outstanding_balance_ratio, Zero)
    /\ FLt(Last(ret.formatted_output).outstanding_balance_ratio, One)
    /\ FGt(Last(ret.formatted_output).payments_ratio, Zero)

\* C18: validate_data of a table that lacks a required column returns
\* valid = FALSE with the missing-columns error alone and no warning, and
\* train of such a table raises the validation error.
C18_MissingColumnsStopValidation ==
    /\ ( ret.op = "validate" /\ ~HasColumns(ret.df) )
       => /\ ret.results.valid = FALSE
          /\ ret.results.errors = <<Msg("Missing required columns")>>
          /\ ret.results.warnings = <<>>
    /\ ( ret.op = "train" /\ ~HasColumns(ret.df) )
       => ret.raised = "ValidationError"

\* validate_data has returned for a table that lacks one column only and
\* whose rows have a negative month and a missing month.
C18_Witness ==
    /\ ret.op = "validate"
    /\ REQUIRED_COLUMNS \ ret.df.columns = {"chargeoffs"}
    /\ \E i, j \in 1..Len(ret.df.rows) :
          /\ ret.df.rows[i].month_on_book < 0
          /\ ret.df.rows[j].month_on_book > ret.df.rows[i].month_on_book + 1
    /\ ret.results.valid = FALSE

\* The months of the rows of the call whose variance of the given flow is
\* above the threshold in absolute value, in input order.
LargeVarianceMonths(flow, threshold) ==
    LET large == SelectSeq(ret.df.rows,
                     LAMBDA r : FGt(FAbs(FSub(FDiv(r[flow], r.outstanding_balance),
                                              get_hazard_rate(hazard_curves, r.month_on_book,
                                                  IF flow = "payments" THEN "payment"
                                                  ELSE "chargeoff").value)),
                                    threshold))
    IN  [k \in 1..Len(large) |-> large[k].month_on_book]

\* The months named by the warnings of the given text, in order.
WarnedMonths(text) ==
    LET ws == SelectSeq(ret.results.warnings, LAMBDA w : w[1] = text)
    IN  [k \in 1..Len(ws) |-> ws[k][3]]

\* C19: validate_known_actuals on a fitted estimator returns one comparison
\* per input row, in input order, with variance = actual rate - expected rate
\* for each flow, a payment warning for exactly the rows of
\* |payment_variance| > 0.05 and a chargeoff warning for exactly the rows of
\* |chargeoff_variance| > 0.02; and of an empty table no comparison, no
\* warning and an empty summary.
C19_ComparisonPerInputRow ==
    ( ret.op = "compare" /\ (DOMAIN hazard_curves # {} \/ ret.df.rows = <<>>) )
    => /\ ret.raised = "none"
       /\ Len(ret.results.detailed_comparison) = Len(ret.df.rows)
       /\ \A i \in 1..Len(ret.df.rows) :
             LET c == ret.results.detailed_comparison[i]
                 r == ret.df.rows[i]
             IN  /\ c.month_on_book = r.month_on_book
                 /\ c.actual_payment_rate = FDiv(r.payments, r.outstanding_balance)
                 /\ c.actual_chargeoff_rate = FDiv(r.chargeoffs, r.outstanding_balance)
                 /\ c.expected_payment_rate =
                       get_hazard_rate(hazard_curves, r.month_on_book, "payment").value
                 /\ c.expected_chargeoff_rate =
                       get_hazard_rate(hazard_curves, r.month_on_book, "chargeoff").value
                 /\ c.payment_variance =
                       FSub(c.actual_payment_rate, c.expected_payment_rate)
                 /\ c.chargeoff_variance =
                       FSub(c.actual_chargeoff_rate, c.expected_chargeoff_rate)
       /\ WarnedMonths("Large payment variance") =
             [k \in 1..Len(LargeVarianceMonths("payments", Frac(5, 100))) |->
                 {LargeVarianceMonths("payments", Frac(5, 100))[k]}]
       /\ WarnedMonths("Large chargeoff variance") =
             [k \in 1..Len(LargeVarianceMonths("chargeoffs", Frac(2, 100))) |->
                 {LargeVarianceMonths("chargeoffs", Frac(2, 100))[k]}]
       /\ Len(ret.results.warnings) =
             Len(WarnedMonths("Large payment variance"))
             + Len(WarnedMonths("Large chargeoff variance"))
       /\ ret.df.rows = <<>>
          => /\ ret.results.summary_stats = EmptyDict
             /\ ret.results.warnings = <<>>

\* C20: each Forecast row carries the running balance b as its
\* outstanding_balance, b * payment rate of its age as payments and
\* b * chargeoff rate of its age as chargeoffs, whatever their sum; the first
\* running balance is balance - payments - chargeoffs of the last known row,
\* and the next is max(0, b - payments - chargeoffs).
C20_ForecastRowRecurrence ==
    Extended
    => \A fr \in {ForecastRows(ret.rows)} :
          /\ fr # <<>>
             => \A last_row \in {LastKnownRow(ret.df.rows)} :
                   /\ fr[1].outstanding_balance =
                         FSub(FSub(last_row.outstanding_balance, last_row.payments),
                              last_row.chargeoffs)
                   /\ fr[1].month_on_book = last_row.month_on_book + 1
          /\ \A i \in 1..Len(fr) :
                /\ fr[i].payments =
                      FMul(fr[i].outstanding_balance,
                           get_hazard_rate(hazard_curves, fr[i].month_on_book,
                                           "payment").value)
                /\ fr[i].chargeoffs =
                      FMul(fr[i].outstanding_balance,
                           get_hazard_rate(hazard_curves, fr[i].month_on_book,
                                           "chargeoff").value)
          /\ \A i \in 1..(Len(fr) - 1) :
                /\ fr[i + 1].month_on_book = fr[i].month_on_book + 1
                /\ fr[i + 1].outstanding_balance =
                      PyMax0(FSub(FSub(fr[i].outstanding_balance, fr[i].payments),
                                  fr[i].chargeoffs))

\* Two Forecast rows, the first with payments and chargeoffs both above zero
\* and the second with what the first leaves.
C20_Witness ==
    /\ Extended
    /\ LET fr == ForecastRows(ret.rows)
       IN  /\ Len(fr) >= 2
           /\ FGt(fr[1].payments, Zero)
           /\ FGt(fr[1].chargeoffs, Zero)
           /\ FGt(fr[2].outstanding_balance, Zero)
           /\ fr[2].outstanding_balance =
                 FSub(FSub(fr[1].outstanding_balance, fr[1].payments), fr[1].chargeoffs)

\* The largest month_on_book of the table of the call.
LastKnownAge ==
    CHOOSE m \in {ret.df.rows[i].month_on_book : i \in 1..Len(ret.df.rows)} :
        \A i \in 1..Len(ret.df.rows) : ret.df.rows[i].month_on_book <= m

\* The number of rows of the sequence s that have the five fields of r.
CountOf(s, r) ==
    Cardinality({i \in 1..Len(s) :
                    /\ s[i].segment_id = r.segment_id
                    /\ s[i].month_on_book = r.month_on_book
                    /\ s[i].outstanding_balance = r.outstanding_balance
                    /\ s[i].payments = r.payments
                    /\ s[i].chargeoffs = r.chargeoffs})

\* C21: in the rows generate_forecast returns every Actual row is before every
\* Forecast row and the ages ascend; the Forecast ages are last_known_age + 1,
\* + 2, ... without a gap and none is above max_month; the last is max_month
\* when the running balance was above $0.01 all the way; and when max_month is
\* not above the last known age the rows are the known actuals alone, all
\* flagged Actual.
C21_ActualsThenConsecutiveForecast ==
    Extended
    => \A fr \in {ForecastRows(ret.rows)} :
          /\ \A i, j \in 1..Len(ret.rows) :
                ( /\ ret.rows[i].forecast_flag = "Actual"
                  /\ ret.rows[j].forecast_flag = "Forecast" )
                => i < j
          /\ \A i \in 1..(Len(ret.rows) - 1) :
                ret.rows[i].month_on_book <= ret.rows[i + 1].month_on_book
          /\ \A k \in 1..Len(fr) :
                /\ fr[k].month_on_book = LastKnownAge + k
                /\ fr[k].month_on_book <= ret.max_month
          /\ ( /\ ret.max_month > LastKnownAge
               /\ FGt(implied_next_balance(LastKnownRow(ret.df.rows)), Frac(1, 100))
               /\ \A k \in 1..Len(fr) :
                     fr[k].month_on_book < ret.max_month
                     => FGt(implied_next_balance(fr[k]), Frac(1, 100)) )
             => /\ fr # <<>>
                /\ Last(fr).month_on_book = ret.max_month
          /\ Len(ret.rows) = Len(ret.df.rows) + Len(fr)
          /\ \A i \in 1..Len(ret.df.rows) :
                CountOf(SelectSeq(ret.rows, LAMBDA r : r.forecast_flag = "Actual"),
                        ret.df.rows[i])
                = CountOf(ret.df.rows, ret.df.rows[i])
          /\ ret.max_month <= LastKnownAge => fr = <<>>

\* Two known rows given out of age order are followed by Forecast rows up to
\* max_month, two ages past the last known age.
C21_Witness ==
    /\ Extended
    /\ Len(ret.df.rows) = 2
    /\ ret.df.rows[1].month_on_book > ret.df.rows[2].month_on_book
    /\ ret.rows[1].forecast_flag = "Actual"
    /\ ret.rows[1].month_on_book = ret.df.rows[2].month_on_book
    /\ Len(ForecastRows(ret.rows)) >= 2
    /\ Last(ret.rows).forecast_flag = "Forecast"
    /\ Last(ret.rows).month_on_book = ret.max_month
    /\ ret.max_month >= LastKnownAge + 2

\* The mean of the raw rates of the given column of the aggregate table at
\* position j and at the positions next to it, as many as there are.
NeighbourMean(agg_df, column, j) ==
    LET lo == IF j = 1 THEN 1 ELSE j - 1
        hi == IF j = Len(agg_df) THEN j ELSE j + 1
    IN  FDiv(FSum([k \in 1..(hi - lo + 1) |-> agg_df[lo + k - 1][column]]),
             Num(hi - lo + 1))

\* C22: after a train call that returns, with smoothing window 3 the stored
\* rate of an age is the mean of the raw rates of that age and of the ages next
\* to it in the aggregate table (two of them for an age in the middle, one for
\* the first and the last age), and with smoothing window 1 it is the raw rate.
C22_SmoothedIsWindowMean ==
    Returned("train")
    => \A agg_df \in {hazard_curves.training_data} :
          \A j \in 1..Len(agg_df) :
             /\ smoothing_window = 1
                => /\ hazard_curves.payment_hazard[agg_df[j].month_on_book] =
                         agg_df[j].payment_hazard_rate
                   /\ hazard_curves.chargeoff_hazard[agg_df[j].month_on_book] =
                         agg_df[j].chargeoff_hazard_rate
             /\ smoothing_window = 3
                => /\ hazard_curves.payment_hazard[agg_df[j].month_on_book] =
                         NeighbourMean(agg_df, "payment_hazard_rate", j)
                   /\ hazard_curves.chargeoff_hazard[agg_df[j].month_on_book] =
                         NeighbourMean(agg_df, "chargeoff_hazard_rate", j)

\* C23: in every reachable state of a pipeline driven through train and
\* forecast, the state inside train between the assignment of the curve and
\* the assignment of the flag included, a trained pipeline has a fitted
\* estimator (a non-empty hazard_curves dict); so no forecast fails with
\* NotFitted, and when the training table had no rows (empty rate mappings)
\* every rate query returns 0.0.
C23_TrainedImpliesFitted ==
    /\ is_trained => DOMAIN hazard_curves # {}
    /\ ret.op = "forecast" => ret.raised # "NotFitted"
    /\ (is_trained /\ DOMAIN hazard_curves.payment_hazard = {})
          => \A m \in QueryMonths, k \in HAZARD_TYPES :
                get_hazard_rate(hazard_curves, m, k) = [raised |-> "none", value |-> Zero]

\* Inside the first train, after fit has stored the curves of a table with no
\* rows and before the flag is set.
C23_Witness ==
    /\ ret.op = "train_in_progress"
    /\ ~is_trained
    /\ ret.curves_before = EmptyDict
    /\ DOMAIN hazard_curves # {}
    /\ DOMAIN hazard_curves.payment_hazard = {}

\* The rows are of one segment and no two of them have the same age.
SingleSegmentDistinctAges(rows) ==
    \A i, j \in 1..Len(rows) :
        /\ rows[i].segment_id = rows[j].segment_id
        /\ i # j => rows[i].month_on_book # rows[j].month_on_book

\* validate_data of the table has a balance flow warning.
HasFlowWarning(df) ==
    \E results \in {validate_data(df)} :
       \E k \in 1..Len(results.warnings) :
          results.warnings[k][1] = "Balance flow inconsistency"

\* The table generate_forecast has returned.
ExtendedTable ==
    [columns |-> REQUIRED_COLUMNS \cup {"forecast_flag"}, rows |-> ret.rows]

\* C24: for known actuals of one segment and distinct ages, the balance of the
\* first Forecast row generate_forecast returns is balance - payments -
\* chargeoffs of the last Actual row, the balance of every Forecast row after
\* it is exactly balance - payments - chargeoffs of the row before (after a
\* row where max(0, .) acted there is no further row), and validate_data of
\* the returned table has a balance flow warning only if validate_data of the
\* known actuals has one.
C24_ProjectionIsFlowConsistent ==
    (Extended /\ SingleSegmentDistinctAges(ret.df.rows))
    => \A fr \in {ForecastRows(ret.rows)} :
          /\ fr # <<>>
             => fr[1].outstanding_balance =
                   implied_next_balance(
                       Last(SelectSeq(ret.rows, LAMBDA r : r.forecast_flag = "Actual")))
          /\ \A i \in 1..(Len(fr) - 1) :
                /\ fr[i + 1].outstanding_balance = implied_next_balance(fr[i])
                /\ FGe(implied_next_balance(fr[i]), Zero)
          /\ HasFlowWarning(ExtendedTable) => HasFlowWarning(ret.df)

\* Two known rows with payments above zero, the second balance what the first
\* leaves, followed by two Forecast rows with payments and chargeoffs above
\* zero: the returned table has no balance flow warning.
C24_Witness ==
    /\ Extended
    /\ SingleSegmentDistinctAges(ret.df.rows)
    /\ Len(ret.df.rows) = 2
    /\ \A i \in 1..2 : FGt(ret.df.rows[i].payments, Zero)
    /\ Len(ForecastRows(ret.rows)) = 2
    /\ \A i \in 1..2 :
          /\ FGt(ForecastRows(ret.rows)[i].payments, Zero)
          /\ FGt(ForecastRows(ret.rows)[i].chargeoffs, Zero)
    /\ ~HasFlowWarning(ret.df)
    /\ ~HasFlowWarning(ExtendedTable)

====
